---- MODULE Spec2Model ----
(***************************************************************************)
(* Model of pkg/kubelet/commitclass/commitclass_manager.go: the Manager    *)
(* (an informer-backed replica of the CommitClass objects), its            *)
(* GetCommitSettings resolution, and the Settings value with Set and Scale.*)
(***************************************************************************)
EXTENDS Integers, Sequences, FiniteSets, TLC

VARIABLES
    store,      \* the informer's store: object name -> stored object (or NoObject)
    ctl,        \* background task of Run: "new", "syncing", "watching", "stopped"
    cancelled,  \* the stop channel passed to Run has been closed
    pc,         \* position of the GetCommitSettings call: "idle", "called", "listed", "done"
    node,       \* labels of the node passed to the call
    items,      \* the slice Store.List() returned to the call
    result,     \* what the call returned: (*Settings, error); NoResult until it returns
    raced,      \* history: the store changed while the current call was in flight
    afterStop,  \* history: the current call started after the task had terminated
    settings,   \* a Settings object held by a caller (NewSettings, Set, Scale)
    scaleCall,  \* history: the arguments of the last Scale call and the Settings before it
    scaleOut    \* the quantity the last Scale call returned

vars == <<store, ctl, cancelled, pc, node, items, result, raced, afterStop,
          settings, scaleCall, scaleOut>>

(***************************************************************************)
(* Bounds and input sets                                                   *)
(***************************************************************************)

\* longest resources sequence of a CommitClass in the enumerated snapshots
MaxResources == 2

\* object names as byte strings: "ab" and "b"
NameAB == <<97, 98>>
NameB == <<98>>
Names == {NameAB, NameB}

\* node labels and the selectors over them; a selector is the set of labels it requires
ProdSelector == {"env=prod"}
Selectors == {{"env=prod"}, {"env=staging"}}
NodeLabels == {{}, {"env=prod"}, {"env=staging"}}

Percents == {50, 150}
ResourceNames == {"cpu", "gpu"}
ResourceInputs == {[name |-> "cpu", percent |-> 50], [name |-> "cpu", percent |-> 150],
                   [name |-> "gpu", percent |-> 150]}

\* quantities in milli-units: 500m, 1000m, 1500m, 2 and 3
Quantities == {[milli |-> 500], [milli |-> 1000], [milli |-> 1500],
               [milli |-> 2000], [milli |-> 3000]}
ScaleNames == {"cpu", "memory", "gpu"}

SeqsUpTo(S, n) == UNION {[1..k -> S] : k \in 0..n}

(***************************************************************************)
(* Objects of the store                                                    *)
(***************************************************************************)

\* an *unstructured.Unstructured whose JSON decodes into a CommitClass
PolicyObject(n, sel, res) ==
    [repr |-> "policy", name |-> n, selector |-> sel, resources |-> res]
\* an *unstructured.Unstructured whose JSON does not decode into a CommitClass
MalformedObject(n) ==
    [repr |-> "malformed", name |-> n, selector |-> {}, resources |-> <<>>]
\* a store item that is not an *unstructured.Unstructured
ForeignObject(n) ==
    [repr |-> "foreign", name |-> n, selector |-> {}, resources |-> <<>>]
\* no object under this name
NoObject == [repr |-> "none", name |-> <<>>, selector |-> {}, resources |-> <<>>]

\* the objects enumerated for the resolution of a fixed snapshot
ObjectsNamed(n) ==
    {PolicyObject(n, sel, res) : sel \in Selectors, res \in SeqsUpTo(ResourceInputs, MaxResources)}
        \cup {MalformedObject(n), ForeignObject(n)}

\* the objects the policy source delivers to the running informer
WatchObjects(n) ==
    {PolicyObject(n, ProdSelector, <<[name |-> "cpu", percent |-> p]>>) : p \in Percents}
        \cup {MalformedObject(n)}

EmptyStore == [n \in Names |-> NoObject]

(***************************************************************************)
(* Settings                                                                *)
(***************************************************************************)

RECURSIVE GCD(_, _)
GCD(a, b) == IF b = 0 THEN a ELSE GCD(b, a % b)

\* float64(percent) / 100: the factor as a fraction in lowest terms <<num, den>>;
\* for the percents used here the denominator is a power of two, so the float64 is exact
ScaleFactor(percent) ==
    LET g == GCD(percent, 100) IN <<percent \div g, 100 \div g>>

\* NewSettings: an empty scales map
NewSettings == [scales |-> [n \in {} |-> <<0, 1>>]]

\* variant of Set that keeps an entry already present
SetKeepFirst(s, name, percent) ==
    IF name \in DOMAIN s.scales THEN s
    ELSE [scales |-> [n \in DOMAIN s.scales \cup {name} |->
                        IF n = name THEN ScaleFactor(percent) ELSE s.scales[n]]]

\* Settings.Set: scales[name] = float64(percent) / 100
Set(s, name, percent) ==
    [scales |-> [n \in DOMAIN s.scales \cup {name} |->
                    IF n = name THEN ScaleFactor(percent) ELSE s.scales[n]]]

\* resource.Quantity.Value(): the quantity in whole units, a fraction rounded up
Value(q) == (q.milli + 999) \div 1000

\* resource.Quantity.Set(int64): the quantity becomes that many whole units
QuantitySet(q, v) == [milli |-> v * 1000]

\* variant of Scale that reads the map without looking at ok (a missing name reads 0)
ScaleNoOkCheck(s, name, q) ==
    LET f == IF name \in DOMAIN s.scales THEN s.scales[name] ELSE <<0, 1>>
    IN QuantitySet(q, (f[1] * Value(q)) \div f[2])

\* Settings.Scale: int64(commitLevel * float64(quantity.Value())), or the quantity
\* itself when the name has no entry
Scale(s, name, q) ==
    IF name \notin DOMAIN s.scales THEN q
    ELSE LET f == s.scales[name]
         IN QuantitySet(q, (f[1] * Value(q)) \div f[2])

(***************************************************************************)
(* GetCommitSettings: decode, sort, first match                            *)
(***************************************************************************)

\* Go's < on strings: byte-wise lexical order
RECURSIVE NameLess(_, _)
NameLess(s, t) ==
    IF t = <<>> THEN FALSE
    ELSE IF s = <<>> THEN TRUE
    ELSE IF s[1] # t[1] THEN s[1] < t[1]
    ELSE NameLess(Tail(s), Tail(t))

\* the type assertion and the JSON round trip of one item
Decode(item) ==
    IF item.repr = "foreign"
    THEN [err |-> "unexpected CommitClass type", cc |-> NoObject]
    ELSE IF item.repr = "malformed"
    THEN [err |-> "invalid CommitClass JSON", cc |-> NoObject]
    ELSE [err |-> "nil",
          cc |-> [name |-> item.name, selector |-> item.selector, resources |-> item.resources]]

\* variant of the decoding loop that skips an item that fails
RECURSIVE DecodeSkipFrom(_, _, _)
DecodeSkipFrom(its, i, acc) ==
    IF i > Len(its) THEN [err |-> "nil", ccs |-> acc]
    ELSE LET d == Decode(its[i])
         IN IF d.err # "nil" THEN DecodeSkipFrom(its, i + 1, acc)
            ELSE DecodeSkipFrom(its, i + 1, Append(acc, d.cc))

RECURSIVE DecodeFrom(_, _, _)
DecodeFrom(its, i, acc) ==
    IF i > Len(its) THEN [err |-> "nil", ccs |-> acc]
    ELSE LET d == Decode(its[i])
         IN IF d.err # "nil" THEN [err |-> d.err, ccs |-> <<>>]
            ELSE DecodeFrom(its, i + 1, Append(acc, d.cc))

DecodeAllSkipBad(its) == DecodeSkipFrom(its, 1, <<>>)

\* the decoding loop: the first item that fails ends the call with its error
DecodeAll(its) == DecodeFrom(its, 1, <<>>)

\* insertion of one commit class into a slice sorted by name
RECURSIVE InsertByName(_, _)
InsertByName(cc, sorted) ==
    IF sorted = <<>> THEN <<cc>>
    ELSE IF NameLess(cc.name, sorted[1].name) THEN <<cc>> \o sorted
    ELSE <<sorted[1]>> \o InsertByName(cc, Tail(sorted))

RECURSIVE SortFrom(_, _, _)
SortFrom(ccs, i, acc) ==
    IF i > Len(ccs) THEN acc ELSE SortFrom(ccs, i + 1, InsertByName(ccs[i], acc))

\* variant without the sort: the classes stay in list order
SortByNameUnsorted(ccs) == ccs

\* sort.Slice(commitClasses, Name < Name)
SortByName(ccs) == SortFrom(ccs, 1, <<>>)

\* v1helper.MatchNodeSelectorTerms({selector}, labels, nil): every label the
\* selector requires is on the node; an empty term selects nothing
MatchNodeSelectorTerms(selector, labels) ==
    selector # {} /\ selector \subseteq labels

\* variant of validResource that allows every name
validResourceAny(resourceName) == TRUE

resourceWhitelist == <<"cpu", "memory", "ephemeral-storage">>

validResource(resourceName) ==
    \E i \in 1..Len(resourceWhitelist) : resourceName = resourceWhitelist[i]

\* the loop over the matched class's resources
RECURSIVE ApplyResources(_, _, _)
ApplyResources(s, resources, i) ==
    IF i > Len(resources) THEN s
    ELSE IF validResource(resources[i].name)
    THEN ApplyResources(Set(s, resources[i].name, resources[i].percent), resources, i + 1)
    ELSE ApplyResources(s, resources, i + 1)

\* variant of the loop without the break: every matching class is applied in turn
RECURSIVE MatchLoopNoBreak(_, _, _, _)
MatchLoopNoBreak(ccs, labels, i, s) ==
    IF i > Len(ccs) THEN s
    ELSE IF MatchNodeSelectorTerms(ccs[i].selector, labels)
    THEN MatchLoopNoBreak(ccs, labels, i + 1, ApplyResources(s, ccs[i].resources, 1))
    ELSE MatchLoopNoBreak(ccs, labels, i + 1, s)

RECURSIVE MatchLoop(_, _, _, _)
MatchLoop(ccs, labels, i, s) ==
    IF i > Len(ccs) THEN s
    ELSE IF MatchNodeSelectorTerms(ccs[i].selector, labels)
    THEN ApplyResources(s, ccs[i].resources, 1)
    ELSE MatchLoop(ccs, labels, i + 1, s)

FirstMatchNoBreak(ccs, labels) == MatchLoopNoBreak(ccs, labels, 1, NewSettings)

\* variant of the loop without the test of matches: the first class is applied
FirstMatchUnchecked(ccs, labels) ==
    IF ccs = <<>> THEN NewSettings ELSE ApplyResources(NewSettings, ccs[1].resources, 1)

\* the loop over the sorted classes: the first match is applied, then break
FirstMatch(ccs, labels) == MatchLoop(ccs, labels, 1, NewSettings)

\* what a call returns: (nil, err) or (settings, nil)
Failure(err) == [nil |-> TRUE, settings |-> NewSettings, err |-> err]
Success(s) == [nil |-> FALSE, settings |-> s, err |-> "nil"]
NoResult == [nil |-> TRUE, settings |-> NewSettings, err |-> "not returned"]

\* the body of GetCommitSettings after Store.List() returned
Resolve(its, labels) ==
    LET d == DecodeAll(its)
    IN IF d.err # "nil" THEN Failure(d.err)
       ELSE Success(FirstMatch(SortByName(d.ccs), labels))

\* Store.List(): the stored objects in any order (Go map iteration order)
StoreList(st) ==
    LET present == {n \in DOMAIN st : st[n] # NoObject}
        k == Cardinality(present)
    IN {[i \in 1..k |-> st[f[i]]] :
            f \in {g \in [1..k -> present] : \A i, j \in 1..k : i # j => g[i] # g[j]}}

(***************************************************************************)
(* The background task of Run: the informer's list, then watch             *)
(***************************************************************************)

InCall == pc \in {"called", "listed"}

\* the contents the policy source can have
WatchStores ==
    {st \in [Names -> UNION {WatchObjects(n) : n \in Names} \cup {NoObject}] :
        \A n \in Names : st[n] = NoObject \/ st[n].name = n}

\* Manager.Run(stopCh): the informer starts its initial list
Run ==
    /\ ctl = "new"
    /\ ctl' = "syncing"
    /\ UNCHANGED <<store, cancelled, pc, node, items, result, raced, afterStop,
                   settings, scaleCall, scaleOut>>

\* the initial list, or a relist after a disconnect: the whole store is replaced
Replace(st) ==
    /\ ctl \in {"syncing", "watching"}
    /\ ctl' = "watching"
    /\ store' = st
    /\ raced' = (raced \/ (InCall /\ st # store))
    /\ UNCHANGED <<cancelled, pc, node, items, result, afterStop,
                   settings, scaleCall, scaleOut>>

\* a watch event for a new object
Add(n, obj) ==
    /\ ctl = "watching"
    /\ store[n] = NoObject
    /\ store' = [store EXCEPT ![n] = obj]
    /\ raced' = (raced \/ InCall)
    /\ UNCHANGED <<ctl, cancelled, pc, node, items, result, afterStop,
                   settings, scaleCall, scaleOut>>

\* a watch event for a changed object: the entry is replaced by the new version
Update(n, obj) ==
    /\ ctl = "watching"
    /\ store[n] # NoObject
    /\ store[n] # obj
    /\ store' = [store EXCEPT ![n] = obj]
    /\ raced' = (raced \/ InCall)
    /\ UNCHANGED <<ctl, cancelled, pc, node, items, result, afterStop,
                   settings, scaleCall, scaleOut>>

\* a watch event for a removed object
Delete(n) ==
    /\ ctl = "watching"
    /\ store[n] # NoObject
    /\ store' = [store EXCEPT ![n] = NoObject]
    /\ raced' = (raced \/ InCall)
    /\ UNCHANGED <<ctl, cancelled, pc, node, items, result, afterStop,
                   settings, scaleCall, scaleOut>>

\* the owner closes the stop channel
Cancel ==
    /\ ~cancelled
    /\ cancelled' = TRUE
    /\ UNCHANGED <<store, ctl, pc, node, items, result, raced, afterStop,
                   settings, scaleCall, scaleOut>>

\* the informer sees the closed channel and Run returns
Terminate ==
    /\ cancelled
    /\ ctl \in {"syncing", "watching"}
    /\ ctl' = "stopped"
    /\ UNCHANGED <<store, cancelled, pc, node, items, result, raced, afterStop,
                   settings, scaleCall, scaleOut>>

(***************************************************************************)
(* A GetCommitSettings call, on the caller's thread                        *)
(***************************************************************************)

\* the caller enters GetCommitSettings(node)
Call(labels) ==
    /\ pc = "idle"
    /\ pc' = "called"
    /\ node' = labels
    /\ raced' = FALSE
    /\ afterStop' = (ctl = "stopped")
    /\ result' = NoResult
    /\ UNCHANGED <<store, ctl, cancelled, items, settings, scaleCall, scaleOut>>

\* variant of the list step that waits for a running, synced informer
GetListBlocking ==
    /\ pc = "called"
    /\ ctl = "watching"
    /\ \E l \in StoreList(store) : items' = l
    /\ pc' = "listed"
    /\ UNCHANGED <<store, ctl, cancelled, node, result, raced, afterStop,
                   settings, scaleCall, scaleOut>>

\* items := m.informer.GetStore().List()
GetList ==
    /\ pc = "called"
    /\ \E l \in StoreList(store) : items' = l
    /\ pc' = "listed"
    /\ UNCHANGED <<store, ctl, cancelled, node, result, raced, afterStop,
                   settings, scaleCall, scaleOut>>

\* variant of the rest of the call that lists the store a second time
FinishRelisted ==
    /\ pc = "listed"
    /\ \E l \in StoreList(store) : result' = Resolve(l, node)
    /\ pc' = "done"
    /\ UNCHANGED <<store, ctl, cancelled, node, items, raced, afterStop,
                   settings, scaleCall, scaleOut>>

\* the rest of GetCommitSettings, computed from items alone
Finish ==
    /\ pc = "listed"
    /\ result' = Resolve(items, node)
    /\ pc' = "done"
    /\ UNCHANGED <<store, ctl, cancelled, node, items, raced, afterStop,
                   settings, scaleCall, scaleOut>>

\* the caller takes the result; the call's locals are gone
Return ==
    /\ pc = "done"
    /\ pc' = "idle"
    /\ items' = <<>>
    /\ raced' = FALSE
    /\ afterStop' = FALSE
    /\ UNCHANGED <<store, ctl, cancelled, node, result, settings, scaleCall, scaleOut>>

(***************************************************************************)
(* A Settings object in a caller's hands                                   *)
(***************************************************************************)

NoScaleCall == [called |-> FALSE, name |-> "", quantity |-> [milli |-> 0], before |-> NewSettings]

\* s.Set(name, percent)
SettingsSet(name, percent) ==
    /\ settings' = Set(settings, name, percent)
    /\ scaleCall' = NoScaleCall
    /\ scaleOut' = [milli |-> 0]
    /\ UNCHANGED <<store, ctl, cancelled, pc, node, items, result, raced, afterStop>>

\* s.Scale(name, quantity)
SettingsScale(name, q) ==
    /\ scaleCall' = [called |-> TRUE, name |-> name, quantity |-> q, before |-> settings]
    /\ scaleOut' = Scale(settings, name, q)
    /\ UNCHANGED <<store, ctl, cancelled, pc, node, items, result, raced, afterStop, settings>>

(***************************************************************************)
(* Specifications                                                          *)
(***************************************************************************)

\* after NewManager and NewSettings
Init ==
    /\ store = EmptyStore
    /\ ctl = "new"
    /\ cancelled = FALSE
    /\ pc = "idle"
    /\ node = {}
    /\ items = <<>>
    /\ result = NoResult
    /\ raced = FALSE
    /\ afterStop = FALSE
    /\ settings = NewSettings
    /\ scaleCall = NoScaleCall
    /\ scaleOut = [milli |-> 0]

Next ==
    \/ Run
    \/ \E st \in WatchStores : Replace(st)
    \/ \E n \in Names : \E obj \in WatchObjects(n) : Add(n, obj)
    \/ \E n \in Names : \E obj \in WatchObjects(n) : Update(n, obj)
    \/ \E n \in Names : Delete(n)
    \/ Cancel
    \/ Terminate
    \/ \E labels \in NodeLabels : Call(labels)
    \/ GetList
    \/ Finish
    \/ Return

\* the manager and its callers
Spec == Init /\ [][Next]_vars

\* the same, with the scheduling the Go runtime gives: the informer's goroutine
\* gets to see the closed channel, and the caller's thread keeps running
SpecLive == Spec /\ WF_vars(Terminate) /\ WF_vars(GetList) /\ WF_vars(Finish)

\* the snapshots enumerated for the resolution
ResolveStores ==
    {st \in [Names -> UNION {ObjectsNamed(n) : n \in Names} \cup {NoObject}] :
        \A n \in Names : st[n] = NoObject \/ st[n].name = n}

\* a manager whose task has terminated, with any snapshot left in the store
InitResolve ==
    /\ store \in ResolveStores
    /\ ctl = "stopped"
    /\ cancelled = TRUE
    /\ pc = "idle"
    /\ node = {}
    /\ items = <<>>
    /\ result = NoResult
    /\ raced = FALSE
    /\ afterStop = FALSE
    /\ settings = NewSettings
    /\ scaleCall = NoScaleCall
    /\ scaleOut = [milli |-> 0]

NextResolve ==
    \/ \E labels \in NodeLabels : Call(labels)
    \/ GetList
    \/ Finish
    \/ Return

\* GetCommitSettings over every enumerated snapshot and node
SpecResolve == InitResolve /\ [][NextResolve]_vars

NextScale ==
    \/ \E name \in ScaleNames : \E percent \in Percents : SettingsSet(name, percent)
    \/ \E name \in ScaleNames : \E q \in Quantities : SettingsScale(name, q)

\* a Settings object under Set and Scale
SpecScale == Init /\ [][NextScale]_vars

(***************************************************************************)
(* Properties                                                              *)
(***************************************************************************)

ItemSet(its) == {its[i] : i \in 1..Len(its)}
StoreItems(st) == {st[n] : n \in Names} \ {NoObject}
AllDecodable(objs) == \A o \in objs : o.repr = "policy"

\* the policies among the listed objects whose selector the node's labels satisfy
Matching(objs, labels) ==
    {o \in objs : o.repr = "policy" /\ o.selector # {} /\ o.selector \subseteq labels}

\* the policy of S whose name is lexically smallest
Smallest(S) == CHOOSE p \in S : \A q \in S \ {p} : NameLess(p.name, q.name)

Whitelisted == {"cpu", "memory", "ephemeral-storage"}

\* the percent of the last entry of the policy's resources that names r
LastPercent(p, r) ==
    LET last == CHOOSE i \in DOMAIN p.resources :
                    /\ p.resources[i].name = r
                    /\ \A j \in DOMAIN p.resources : p.resources[j].name = r => j <= i
    IN p.resources[last].percent

\* percent/100 as a fraction <<num, den>>
IsFactorOf(f, percent) == f[1] * 100 = percent * f[2]

\* the Settings one policy stands for
PolicySettingsOk(s, p) ==
    /\ DOMAIN s.scales = {p.resources[i].name : i \in DOMAIN p.resources} \cap Whitelisted
    /\ \A r \in DOMAIN s.scales : IsFactorOf(s.scales[r], LastPercent(p, r))

SettingsOf(res) == [nil |-> res.nil, settings |-> res.settings]

\* what a call over the objects objs and the labels has to return
ResultFits(res, objs, labels) ==
    IF ~AllDecodable(objs) THEN res.nil /\ res.err # "nil"
    ELSE /\ ~res.nil
         /\ res.err = "nil"
         /\ IF Matching(objs, labels) = {} THEN DOMAIN res.settings.scales = {}
            ELSE PolicySettingsOk(res.settings, Smallest(Matching(objs, labels)))

\* C1: when every listed object decodes and at least one policy matches the node,
\* the call returns, without error, the Settings of the matching policy with the
\* lexically smallest name, and nothing of any other policy.
C1_SmallestMatchWins ==
    (pc = "done" /\ AllDecodable(ItemSet(items)) /\ Matching(ItemSet(items), node) # {})
        => /\ ~result.nil
           /\ result.err = "nil"
           /\ PolicySettingsOk(result.settings, Smallest(Matching(ItemSet(items), node)))

\* two policies with different resources match, and the store listed the larger name first
C1_Witness ==
    /\ pc = "done"
    /\ Len(items) = 2
    /\ Matching(ItemSet(items), node) = ItemSet(items)
    /\ NameLess(items[2].name, items[1].name)
    /\ items[1].resources # <<>>
    /\ items[2].resources # <<>>
    /\ items[1].resources[1].name = "cpu"
    /\ items[2].resources[1].name = "cpu"
    /\ items[1].resources # items[2].resources
    /\ ~result.nil

\* C2 as stated: whenever no policy of the snapshot matches the node, the call
\* returns an empty Settings and no error.
C2_NoMatchAlwaysEmpty ==
    (pc = "done" /\ Matching(ItemSet(items), node) = {})
        => (~result.nil /\ result.err = "nil" /\ DOMAIN result.settings.scales = {})

\* C2 amended: when every object of the snapshot decodes and no policy matches the
\* node, the call returns an empty Settings and no error; so it does before the
\* first list has completed, when the snapshot is empty.
C2_NoMatchEmpty ==
    (pc = "done" /\ AllDecodable(ItemSet(items)) /\ Matching(ItemSet(items), node) = {})
        => (~result.nil /\ result.err = "nil" /\ DOMAIN result.settings.scales = {})

\* a call that completed over a snapshot with a policy that does not match the node
C2_Witness ==
    /\ pc = "done"
    /\ items # <<>>
    /\ AllDecodable(ItemSet(items))
    /\ Matching(ItemSet(items), node) = {}
    /\ ~result.nil

\* C3: when any listed object is not an Unstructured or does not decode, the call
\* returns an error and a nil Settings, whatever the node and the other objects.
C3_BadObjectFails ==
    (pc = "done" /\ ~AllDecodable(ItemSet(items)))
        => (result.nil /\ result.err # "nil" /\ result.settings = NewSettings)

\* a matching policy sorts before a malformed object, and the call has failed
C3_Witness ==
    /\ pc = "done"
    /\ Len(items) = 2
    /\ \E i, j \in 1..2 :
        /\ items[i].repr = "policy"
        /\ items[i] \in Matching(ItemSet(items), node)
        /\ items[i].resources # <<>>
        /\ items[j].repr = "malformed"
        /\ NameLess(items[i].name, items[j].name)
    /\ result.nil

\* C4: a returned Settings has entries for whitelisted names only, and every
\* whitelisted name the matched policy lists has one.
C4_OnlyWhitelisted ==
    (pc = "done" /\ ~result.nil)
        => /\ DOMAIN result.settings.scales \subseteq Whitelisted
           /\ Matching(ItemSet(items), node) # {} =>
                \A r \in {e.name : e \in ItemSet(Smallest(Matching(ItemSet(items), node)).resources)} :
                    r \in Whitelisted => r \in DOMAIN result.settings.scales

\* the matched policy lists gpu and cpu; only cpu has an entry
C4_Witness ==
    /\ pc = "done"
    /\ ~result.nil
    /\ Matching(ItemSet(items), node) # {}
    /\ {e.name : e \in ItemSet(Smallest(Matching(ItemSet(items), node)).resources)} = {"gpu", "cpu"}
    /\ DOMAIN result.settings.scales = {"cpu"}

\* C5: for a name with an entry, Scale returns the quantity times percent/100,
\* at the quantity's own precision (1000m at 0.5 gives 500m).
C5_ScaleMultiplies ==
    (scaleCall.called /\ scaleCall.name \in DOMAIN scaleCall.before.scales)
        => LET f == scaleCall.before.scales[scaleCall.name]
           IN scaleOut.milli = (f[1] * scaleCall.quantity.milli) \div f[2]

\* C6: for a name without an entry, Scale returns the quantity it was given, and
\* the Settings is as it was before the call.
C6_NoEntryUnchanged ==
    (scaleCall.called /\ scaleCall.name \notin DOMAIN scaleCall.before.scales)
        => (scaleOut = scaleCall.quantity /\ settings = scaleCall.before)

\* Scale of 1500m for a name without an entry, on a Settings that has other entries
C6_Witness ==
    /\ scaleCall.called
    /\ scaleCall.name \notin DOMAIN scaleCall.before.scales
    /\ DOMAIN scaleCall.before.scales # {}
    /\ scaleCall.quantity.milli = 1500
    /\ scaleOut.milli = 1500

\* C7: the call lists the store once, at one instant; the listed items are the
\* store's whole objects of that instant, they stay as listed for the rest of the
\* call, and the result is computed from them whatever the store does meanwhile.
C7_OneSnapshot ==
    [][/\ (pc = "called" /\ pc' = "listed") =>
            (ItemSet(items') = StoreItems(store) /\
             Len(items') = Cardinality(ItemSet(items')))
       /\ pc = "listed" => items' = items
       /\ (pc = "listed" /\ pc' = "done") => ResultFits(result', ItemSet(items), node)]_vars

\* the store changed during the call, and the result is the one for the items
\* listed, which no listing of the store as it is now would give
C7_Witness ==
    /\ pc = "done"
    /\ raced
    /\ ResultFits(result, ItemSet(items), node)
    /\ ~ResultFits(result, StoreItems(store), node)

\* C8: the Settings returned depends only on the set of listed objects and the
\* node's labels: every other order of the same objects gives the same Settings,
\* in every call of a sequence of calls.
C8_OrderIndependent ==
    pc = "done" => \A l \in StoreList(store) : SettingsOf(Resolve(l, node)) = SettingsOf(result)

\* two matching policies that the store listed larger name first
C8_Witness ==
    /\ pc = "done"
    /\ Len(items) = 2
    /\ Cardinality(Matching(ItemSet(items), node)) = 2
    /\ NameLess(items[2].name, items[1].name)
    /\ Cardinality(StoreList(store)) = 2
    /\ DOMAIN result.settings.scales # {}

\* C9: once the stop channel is closed the running task terminates, and from then
\* on the store does not change; a call in flight completes whatever the task
\* does, with the result for the items it listed, and a call started after the
\* task terminated returns the result for the store as the task left it.
C9_CancelTerminates ==
    /\ (cancelled /\ ctl \in {"syncing", "watching"}) ~> (ctl = "stopped")
    /\ [][ctl = "stopped" => (ctl' = "stopped" /\ store' = store)]_vars
    /\ (pc = "called") ~> (pc = "done")
    /\ [](pc = "done" => ResultFits(result, ItemSet(items), node))
    /\ [](pc = "done" /\ afterStop => ResultFits(result, StoreItems(store), node))

\* a call started after the task terminated has returned the Settings of a policy
C9_Witness ==
    /\ ctl = "stopped"
    /\ pc = "done"
    /\ afterStop
    /\ ~result.nil
    /\ DOMAIN result.settings.scales # {}

\* C10: when the matched policy lists a whitelisted name more than once, the
\* entry is percent/100 of the last occurrence.
C10_LastDuplicateWins ==
    (pc = "done" /\ ~result.nil /\ Matching(ItemSet(items), node) # {})
        => LET p == Smallest(Matching(ItemSet(items), node))
           IN \A i, j \in DOMAIN p.resources :
                (/\ i < j
                 /\ p.resources[i].name = p.resources[j].name
                 /\ p.resources[j].name \in Whitelisted
                 /\ \A k \in DOMAIN p.resources : k > j => p.resources[k].name # p.resources[j].name)
                    => /\ p.resources[j].name \in DOMAIN result.settings.scales
                       /\ IsFactorOf(result.settings.scales[p.resources[j].name],
                                     p.resources[j].percent)

\* the matched policy lists cpu at 50 and then at 150; the entry is 3/2
C10_Witness ==
    /\ pc = "done"
    /\ ~result.nil
    /\ Matching(ItemSet(items), node) # {}
    /\ LET p == Smallest(Matching(ItemSet(items), node))
       IN /\ Len(p.resources) >= 2
          /\ p.resources[1] = [name |-> "cpu", percent |-> 50]
          /\ p.resources[Len(p.resources)] = [name |-> "cpu", percent |-> 150]
    /\ "cpu" \in DOMAIN result.settings.scales
    /\ result.settings.scales["cpu"] = <<3, 2>>

====
